---------------------------- MODULE Spec2Model ----------------------------
(***************************************************************************)
(* Model of the inference gateway of python/server.py together with the    *)
(* engine caches of python/inference.py and python/reasoning.py.           *)
(*                                                                         *)
(* The event loop runs one handler step at a time (everything between two  *)
(* awaits is atomic with respect to the other handlers); the work items    *)
(* run in the threads of the shared pool and interleave freely.  Time is   *)
(* kept as the order in which the deadlines of the waiting handlers pass.  *)
(***************************************************************************)
EXTENDS Integers, Sequences, FiniteSets, TLC

\* ------------------------------------------------------------------ bounds
NumReq == 3          \* number of requests the client sends
MaxOptions == 3      \* longest list of options passed to classify_activity
MaxResponseLen == 3  \* longest text the engine returns to classify_activity
MaxPromptLen == 1    \* longest prompt of analyze_screenshot, in characters
MaxOutputLen == 5    \* longest output of mlx_generate made of mixed characters
MaxPlainLen == 230   \* longest output of mlx_generate made of one letter
MaxDescriptions == 11  \* longest list of descriptions passed to summarize_activities
NumShutdown == 2     \* number of POST /shutdown requests the client sends
MaxPieces == 6       \* most pieces (letters and separators) of an output of mlx_generate

\* ------------------------------------------------------- program constants
max_concurrent_requests == 2
max_workers == 2
AnalyzeTimeout == 60
SummarizeTimeout == 120
ClassifyTimeout == 30
BUSY == 503
TIMEOUT == 504
FAILURE == 500
OK == 200
DISCONNECT == 499
\* confidences of classify_activity, in hundredths
MatchConfidence == 80
FallbackConfidence == 50
\* confidence of analyze_screenshot, in thousandths: min(0.95, 0.5 + len / 500)
ConfidenceCap == 950
ConfidenceBase == 500
ConfidencePerChar == 2
\* number of descriptions summarize_activities puts into the prompt
MaxConsumed == 10
\* the status FastAPI answers when the request body fails the request model
UNPROCESSABLE == 422

Reqs == 1..NumReq
\* the value None of the two module-level caches
NoHandle == "none"
Endpoints == {"analyze", "summarize", "classify"}
Engines == {"vision", "reasoning"}
\* what an analyze request carries as image source
ImageInputs == {"none", "path", "base64", "both"}
\* the temporary files analyze_screenshot can create
TempFiles == {"decoded", "cropped"}

\* the engine an endpoint calls into
EngineOf(k) == IF k = "analyze" THEN "vision" ELSE "reasoning"

\* the timeout handed to asyncio.wait_for by each handler
TimeoutOf(k) ==
    IF k = "analyze" THEN AnalyzeTimeout
    ELSE IF k = "summarize" THEN SummarizeTimeout
    ELSE ClassifyTimeout

VARIABLES
    startup,            \* position of lifespan(): which startup load is next, serving
                        \* (at the yield), or how far its shutdown phase is
    model_cache,        \* engine -> the cached handle, or NoHandle (None)
    load_failed,        \* engines of which a load attempt has raised
    request_semaphore,  \* value of _request_semaphore
    model_lock,         \* set of work items inside `with _model_lock`
    queue,              \* work queue of _inference_pool (FIFO)
    pc,                 \* request -> position of its handler
    kind,               \* request -> endpoint, while the request or its work item lives
    response,           \* the response sent last: request and HTTP status
    wi,                 \* request -> state of its work item
    result,             \* request -> outcome of its work item, until it is read
    releases,           \* request -> number of semaphore releases it made
    temp_files,         \* temp_files_to_cleanup of the analyze call in progress
    call_image,         \* image source(s) passed to the analyze call in progress
    leaked,             \* waiting requests whose call left a temporary file on disk
    sys_stdout,         \* sys.stdout of the process
    sys_stderr,         \* sys.stderr of the process
    original_stdout,    \* caller -> original_stdout of its reasoning call in progress
    original_stderr,    \* caller -> original_stderr of its reasoning call in progress
    options,            \* classify_activity: the options passed in
    engine_response,    \* classify_activity: the text generate_text returned
    classification,     \* classify_activity: the dict returned
    prompt,             \* analyze_screenshot: the prompt
    output,             \* analyze_screenshot: the string mlx_generate returned
    analysis,           \* analyze_screenshot: the dict returned
    descriptions,       \* summarize_activities: the descriptions passed in
    summary,            \* summarize_activities: the context built and the dict returned
    shutdown_pc,        \* shutdown request -> position of its handler and background task
    shutdown_event,     \* shutdown_event is set
    should_exit,        \* server.should_exit
    monitor,            \* position of the check_shutdown task
    image_path,         \* analyze_screenshot: the argument image_path is given
    image_base64,       \* analyze_screenshot: the argument image_base64 is given
    preprocess,         \* analyze_screenshot: the argument preprocess
    call_pc,            \* analyze_screenshot: position of the call
    image_source,       \* analyze_screenshot: the file image_source names
    temp_files_to_cleanup,  \* analyze_screenshot: the list of that name
    was_preprocessed,   \* analyze_screenshot: the local of that name
    engine_image,       \* the file handed to mlx_generate
    files,              \* the files on disk
    unlinked,           \* the files the finally block has unlinked
    call_result         \* analyze_screenshot: how the call ended

\* the state of the gateway
serverVars == <<startup, model_cache, load_failed, request_semaphore, model_lock, queue,
                pc, kind, response, wi, result, releases,
                temp_files, call_image, leaked,
                sys_stdout, sys_stderr, original_stdout, original_stderr>>
\* the locals of one call of each engine function
classifyVars == <<options, engine_response, classification>>
outputVars == <<prompt, output, analysis>>
summarizeVars == <<descriptions, summary>>
\* the shutdown machinery of run_server
shutdownVars == <<shutdown_pc, shutdown_event, should_exit, monitor>>
\* the arguments and locals of one call of analyze_screenshot, and the disk
fileVars == <<image_path, image_base64, preprocess, call_pc, image_source,
              temp_files_to_cleanup, was_preprocessed, engine_image, files, unlinked,
              call_result>>

vars == <<serverVars, classifyVars, outputVars, summarizeVars, shutdownVars, fileVars>>

\* what the steps of the gateway leave alone
besideServer == <<classifyVars, outputVars, summarizeVars, shutdownVars, fileVars>>
\* what a call of each engine function and the shutdown machinery leave alone
besideClassify == <<serverVars, outputVars, summarizeVars, shutdownVars, fileVars>>
besideOutput == <<serverVars, classifyVars, summarizeVars, shutdownVars, fileVars>>
besideSummarize == <<serverVars, classifyVars, outputVars, shutdownVars, fileVars>>
besideShutdown == <<serverVars, classifyVars, outputVars, summarizeVars, fileVars>>
besideFiles == <<serverVars, classifyVars, outputVars, summarizeVars, shutdownVars>>

\* state of the analyze call in progress and of the temporary directory
callVars == <<temp_files, call_image, leaked>>

\* the standard streams and the locals that hold them during a reasoning call
streamVars == <<sys_stdout, sys_stderr, original_stdout, original_stderr>>

\* who calls load_reasoning_model or generate_text: lifespan() or the work
\* item of a request
LifespanCaller == 0
Callers == {LifespanCaller} \cup Reqs

\* a stream is known by a number: the file os.devnull as caller c has opened
\* it is stream c, and the streams the process starts with come before the
\* callers
ProcessStdout == -1
ProcessStderr == -2
Devnull(c) == c
\* original_stdout / original_stderr of a call that is not going on
NoStream == -3

\* original_stdout = sys.stdout; original_stderr = sys.stderr; then
\* sys.stdout = devnull; sys.stderr = devnull
Redirect(c) ==
    /\ original_stdout' = [original_stdout EXCEPT ![c] = sys_stdout]
    /\ original_stderr' = [original_stderr EXCEPT ![c] = sys_stderr]
    /\ sys_stdout' = Devnull(c)
    /\ sys_stderr' = Devnull(c)

StreamLeft(saved, current) == current
\* the stream after the finally block: sys.stdout = original_stdout
StreamRestored(saved, current) == saved

\* the finally block of load_reasoning_model and of generate_text
Restore(c) ==
    /\ sys_stdout' = StreamRestored(original_stdout[c], sys_stdout)
    /\ sys_stderr' = StreamRestored(original_stderr[c], sys_stderr)
    /\ original_stdout' = [original_stdout EXCEPT ![c] = NoStream]
    /\ original_stderr' = [original_stderr EXCEPT ![c] = NoStream]

\* load_reasoning_model returns into generate_text: the streams are
\* restored, then saved and redirected again
RestoreAndRedirect(c) ==
    /\ original_stdout' =
         [original_stdout EXCEPT ![c] = StreamRestored(original_stdout[c], sys_stdout)]
    /\ original_stderr' =
         [original_stderr EXCEPT ![c] = StreamRestored(original_stderr[c], sys_stderr)]
    /\ sys_stdout' = Devnull(c)
    /\ sys_stderr' = Devnull(c)

\* work items that occupy a thread of the pool
Started == {"waitlock", "loading", "prepare", "engine"}
Running == {r \in Reqs : wi[r] \in Started}
Awaiting == {r \in Reqs : pc[r] = "awaiting"}

\* the response of an inference handler to request r: the HTTP status
Reply(r, c) == [req |-> r, code |-> c, path |-> "inference",
                status |-> "n/a", model_loaded |-> FALSE, info |-> {}]
\* nothing has been sent yet
NoResponse == [req |-> 0, code |-> 0, path |-> "none",
               status |-> "n/a", model_loaded |-> FALSE, info |-> {}]

\* the sequence q without the element r
Remove(q, r) == SelectSeq(q, LAMBDA x : x # r)

ServerInit ==
    /\ startup = "vlm"
    /\ model_cache = [e \in Engines |-> NoHandle]
    /\ load_failed = {}
    /\ request_semaphore = max_concurrent_requests
    /\ model_lock = {}
    /\ queue = <<>>
    /\ pc = [r \in Reqs |-> "idle"]
    /\ kind = [r \in Reqs |-> "none"]
    /\ response = NoResponse
    /\ wi = [r \in Reqs |-> "none"]
    /\ result = [r \in Reqs |-> "none"]
    /\ releases = [r \in Reqs |-> 0]
    /\ temp_files = {}
    /\ call_image = "n/a"
    /\ leaked = {}
    /\ sys_stdout = ProcessStdout
    /\ sys_stderr = ProcessStderr
    /\ original_stdout = [c \in Callers |-> NoStream]
    /\ original_stderr = [c \in Callers |-> NoStream]

\* ----------------------------------------------------------------- startup
StartupEngine == IF startup \in {"vlm", "vlm_loading"} THEN "vision" ELSE "reasoning"
StartupNextAborted == startup
StartupNext == IF startup = "vlm_loading" THEN "reasoning" ELSE "serving"
StartupAfter == IF startup = "vlm" THEN "reasoning" ELSE "serving"

\* the handles: the object a load made at startup caches, and the object a
\* load made inside a request caches
StartupHandle == "loaded at startup"
RequestHandle == "loaded in a request"

NeedsLoadAlways(e) == TRUE
NeedsLoadOnlyAtStartup(e) == model_cache[e] = NoHandle /\ startup # "serving"
\* load_model / load_reasoning_model: the cache test that decides a load
NeedsLoad(e) == model_cache[e] = NoHandle

\* lifespan() calls load_model(), then load_reasoning_model(); each returns
\* at once when its cache is filled
StartupLoadBegin ==
    /\ startup \in {"vlm", "reasoning"}
    /\ startup' = IF ~NeedsLoad(StartupEngine) THEN StartupAfter
                  ELSE IF startup = "vlm" THEN "vlm_loading" ELSE "reasoning_loading"
    /\ UNCHANGED <<model_cache, load_failed, request_semaphore, model_lock, queue, pc, kind,
                   response, wi, result, releases>>
    /\ UNCHANGED callVars
    /\ IF StartupEngine = "reasoning" /\ NeedsLoad(StartupEngine)
       THEN Redirect(LifespanCaller) ELSE UNCHANGED streamVars
    /\ UNCHANGED besideServer

StartupLoadOk ==
    /\ startup \in {"vlm_loading", "reasoning_loading"}
    /\ model_cache' = [model_cache EXCEPT ![StartupEngine] = StartupHandle]
    /\ startup' = StartupNext
    /\ UNCHANGED <<load_failed, request_semaphore, model_lock, queue, pc, kind,
                   response, wi, result, releases>>
    /\ UNCHANGED callVars
    /\ IF StartupEngine = "reasoning"
       THEN Restore(LifespanCaller) ELSE UNCHANGED streamVars
    /\ UNCHANGED besideServer

\* the exception is logged and the startup goes on
StartupLoadFail ==
    /\ startup \in {"vlm_loading", "reasoning_loading"}
    /\ startup' = StartupNext
    /\ load_failed' = load_failed \cup {StartupEngine}
    /\ UNCHANGED <<model_cache, request_semaphore, model_lock, queue, pc,
                   kind, response, wi, result, releases>>
    /\ UNCHANGED callVars
    /\ IF StartupEngine = "reasoning"
       THEN Restore(LifespanCaller) ELSE UNCHANGED streamVars
    /\ UNCHANGED besideServer

ServingDuringStartup == TRUE
\* requests are served once lifespan() has yielded
Serving == startup = "serving"

\* ------------------------------------------------------ admission (handler)
TryAcquireAlways == TRUE
TryAcquireOffByOne == request_semaphore >= 0
\* _request_semaphore.acquire(blocking=False)
TryAcquire == request_semaphore > 0

\* requests are numbered in the order of their arrival
NextToArrive(r) == pc[r] = "idle" /\ (IF r = 1 THEN TRUE ELSE pc[r - 1] # "idle")

\* acquire succeeded: the closure is submitted and the handler awaits it
Admit(r, k) ==
    /\ Serving
    /\ NextToArrive(r)
    /\ TryAcquire
    /\ request_semaphore' = request_semaphore - 1
    /\ pc' = [pc EXCEPT ![r] = "awaiting"]
    /\ kind' = [kind EXCEPT ![r] = k]
    /\ wi' = [wi EXCEPT ![r] = "queued"]
    /\ queue' = Append(queue, r)
    /\ UNCHANGED <<startup, model_cache, load_failed, model_lock, response, result, releases>>
    /\ UNCHANGED callVars
    /\ UNCHANGED streamVars
    /\ UNCHANGED besideServer

SemAfterRejectReleased == request_semaphore + 1
\* the semaphore value a rejected request leaves behind
SemAfterReject == request_semaphore

\* acquire failed: HTTPException(503) is raised before the try block
Reject(r, k) ==
    /\ Serving
    /\ NextToArrive(r)
    /\ ~TryAcquire
    /\ request_semaphore' = SemAfterReject
    /\ pc' = [pc EXCEPT ![r] = "done"]
    /\ response' = Reply(r, BUSY)
    /\ UNCHANGED <<startup, model_cache, load_failed, model_lock, queue, kind,
                   wi, result, releases>>
    /\ UNCHANGED callVars
    /\ UNCHANGED streamVars
    /\ UNCHANGED besideServer

\* the request body does not fit the request model (max_tokens outside
\* 50..1000, temperature outside 0.0..2.0, empty descriptions or options):
\* FastAPI answers before the handler is called
RejectInvalid(r) ==
    /\ Serving
    /\ NextToArrive(r)
    /\ pc' = [pc EXCEPT ![r] = "done"]
    /\ response' = Reply(r, UNPROCESSABLE)
    /\ UNCHANGED <<startup, model_cache, load_failed, request_semaphore, model_lock,
                   queue, kind, wi, result, releases>>
    /\ UNCHANGED callVars
    /\ UNCHANGED streamVars
    /\ UNCHANGED besideServer

\* ------------------------------------------------------- worker pool threads
WorkerFreeAlways == TRUE
\* the pool has a thread that runs no work item
WorkerFree == Cardinality(Running) < max_workers

\* a free thread of the pool takes the next work item
WorkerTake(r) ==
    /\ queue # <<>>
    /\ r = Head(queue)
    /\ WorkerFree
    /\ queue' = Tail(queue)
    /\ wi' = [wi EXCEPT ![r] = "waitlock"]
    /\ UNCHANGED <<startup, model_cache, load_failed, request_semaphore, model_lock,
                   pc, kind, response, result, releases>>
    /\ UNCHANGED callVars
    /\ UNCHANGED streamVars
    /\ UNCHANGED besideServer

CanAcquireUnlocked(r) == TRUE
CanAcquirePerEngine(r) == \A h \in model_lock : EngineOf(kind[h]) # EngineOf(kind[r])
\* the lock can be taken: _model_lock is one plain lock for every endpoint
CanAcquire(r) == model_lock = {}

FinishKeepsLock(r, res) ==
    /\ model_lock' = model_lock
    /\ wi' = [wi EXCEPT ![r] = "done"]
    /\ result' = [result EXCEPT ![r] = IF pc[r] = "awaiting" THEN res ELSE "none"]
    /\ kind' = [kind EXCEPT ![r] = IF pc[r] = "awaiting" THEN @ ELSE "none"]
    /\ temp_files' = {}
    /\ call_image' = "n/a"
\* the work item returns or raises: the finally block of analyze_screenshot
\* unlinks the files of temp_files_to_cleanup, the with block is left and the
\* future of the work item gets its outcome, which nobody reads once the
\* handler is gone
Finish(r, res) ==
    /\ model_lock' = model_lock \ {r}
    /\ wi' = [wi EXCEPT ![r] = "done"]
    /\ result' = [result EXCEPT ![r] = IF pc[r] = "awaiting" THEN res ELSE "none"]
    /\ kind' = [kind EXCEPT ![r] = IF pc[r] = "awaiting" THEN @ ELSE "none"]
    /\ temp_files' = {}
    /\ call_image' = "n/a"

MissingImageNever(k, img) == FALSE
\* analyze_screenshot raises ValueError before its try block when the
\* request carries no image source
MissingImage(k, img) == k = "analyze" /\ img = "none"

AfterLoadSkipPrepare(k) == "engine"
\* what follows load_model() in the engine function: analyze_screenshot
\* prepares the image, the reasoning functions call generate at once
AfterLoad(k) == IF k = "analyze" THEN "prepare" ELSE "engine"

\* `with _model_lock:` is entered and the engine function is called: input
\* check, then load_model() or load_reasoning_model(), which return the
\* cached handle when there is one
AcquireLock(r, img) ==
    /\ wi[r] = "waitlock"
    /\ CanAcquire(r)
    /\ IF MissingImage(kind[r], img)
       THEN /\ Finish(r, "exc")
       ELSE /\ model_lock' = model_lock \cup {r}
            /\ call_image' = IF kind[r] = "analyze" THEN img ELSE "n/a"
            /\ UNCHANGED <<result, kind, temp_files>>
            /\ IF NeedsLoad(EngineOf(kind[r]))
               THEN /\ wi' = [wi EXCEPT ![r] = "loading"]
               ELSE /\ wi' = [wi EXCEPT ![r] = AfterLoad(kind[r])]
    /\ UNCHANGED <<startup, model_cache, load_failed, request_semaphore, queue, pc,
                   response, releases, leaked>>
    /\ IF ~MissingImage(kind[r], img) /\ EngineOf(kind[r]) = "reasoning"
       THEN Redirect(r) ELSE UNCHANGED streamVars
    /\ UNCHANGED besideServer

\* the load succeeded: the handle is cached and the engine is called
LoadOk(r) ==
    /\ wi[r] = "loading"
    /\ model_cache' = [model_cache EXCEPT ![EngineOf(kind[r])] = RequestHandle]
    /\ wi' = [wi EXCEPT ![r] = AfterLoad(kind[r])]
    /\ UNCHANGED <<startup, load_failed, request_semaphore, model_lock, queue, pc,
                   kind, response, result, releases>>
    /\ UNCHANGED callVars
    /\ IF EngineOf(kind[r]) = "reasoning"
       THEN RestoreAndRedirect(r) ELSE UNCHANGED streamVars
    /\ UNCHANGED besideServer

\* the load raised: nothing is cached, the engine function catches the
\* exception and returns a result with success = False
LoadFail(r) ==
    /\ wi[r] = "loading"
    /\ load_failed' = load_failed \cup {EngineOf(kind[r])}
    /\ Finish(r, "fail")
    /\ UNCHANGED <<startup, model_cache, request_semaphore, queue, pc,
                   response, releases, leaked>>
    /\ IF EngineOf(kind[r]) = "reasoning"
       THEN Restore(r) ELSE UNCHANGED streamVars
    /\ UNCHANGED besideServer

\* the image source analyze_screenshot uses: the path when both are given
SourceUsed == IF call_image \in {"path", "both"} THEN "path" ELSE "base64"

\* how the preparation of the image can go: validate_image_path or
\* decode_base64_image raises; the write into the temporary file raises
PrepareOutcomes == {"ok", "invalid", "write fails"}
\* how preprocess_screenshot can go: nothing cropped (or preprocess off),
\* cropped into a new temporary file, or the write into that file raises
CropOutcomes == {"not cropped", "cropped", "write fails"}

\* analyze_screenshot between load_model() and generate: the path is
\* validated or the base64 image is decoded and written to a temporary file,
\* then the image is cropped into a second temporary file.  A file is
\* appended to temp_files_to_cleanup only after it has been written: a file
\* whose write raises stays on disk unregistered
PrepareImage(r, f, c) ==
    /\ wi[r] = "prepare"
    /\ IF f = "ok"
       THEN /\ wi' = [wi EXCEPT ![r] = "engine"]
            /\ temp_files' = (IF SourceUsed = "base64" THEN {"decoded"} ELSE {})
                              \cup (IF c = "cropped" THEN {"cropped"} ELSE {})
            /\ leaked' = IF c = "write fails" THEN leaked \cup ({r} \cap Awaiting) ELSE leaked
            /\ UNCHANGED <<model_lock, result, kind, call_image>>
       ELSE /\ c = "not cropped"
            /\ f = "write fails" => SourceUsed = "base64"
            /\ leaked' = IF f = "write fails" THEN leaked \cup ({r} \cap Awaiting) ELSE leaked
            /\ Finish(r, "fail")
    /\ UNCHANGED <<startup, model_cache, load_failed, request_semaphore, queue, pc,
                   response, releases>>
    /\ UNCHANGED streamVars
    /\ UNCHANGED besideServer

\* the generate call returned
EngineOk(r) ==
    /\ wi[r] = "engine"
    /\ Finish(r, "ok")
    /\ UNCHANGED <<startup, model_cache, load_failed, request_semaphore, queue, pc,
                   response, releases, leaked>>
    /\ IF EngineOf(kind[r]) = "reasoning"
       THEN Restore(r) ELSE UNCHANGED streamVars
    /\ UNCHANGED besideServer

\* the generate call (or the image handling around it) raised: caught by the
\* engine function, which returns a result with success = False
EngineFail(r) ==
    /\ wi[r] = "engine"
    /\ Finish(r, "fail")
    /\ UNCHANGED <<startup, model_cache, load_failed, request_semaphore, queue, pc,
                   response, releases, leaked>>
    /\ IF EngineOf(kind[r]) = "reasoning"
       THEN Restore(r) ELSE UNCHANGED streamVars
    /\ UNCHANGED besideServer

PipeOutcomeRaised == "pipe_exc"
\* what the engine function makes of a BrokenPipeError raised inside it: a
\* result with success = False whose error names the broken pipe
PipeOutcome == "pipe"

\* the generate call raised BrokenPipeError (a write to a closed stdout)
EnginePipe(r) ==
    /\ wi[r] = "engine"
    /\ Finish(r, PipeOutcome)
    /\ UNCHANGED <<startup, model_cache, load_failed, request_semaphore, queue, pc,
                   response, releases, leaked>>
    /\ IF EngineOf(kind[r]) = "reasoning"
       THEN Restore(r) ELSE UNCHANGED streamVars
    /\ UNCHANGED besideServer

\* ------------------------------------------------------ handler after await
ReleaseNothing(r) == UNCHANGED <<request_semaphore, releases>>
\* _request_semaphore.release() of the finally block
Release(r) ==
    /\ request_semaphore' = request_semaphore + 1
    /\ releases' = [releases EXCEPT ![r] = @ + 1]

StatusOfMasked(k, res) == OK
\* status answered for the outcome of the work item: a result with success,
\* a result without ("fail", "pipe"), or an exception that reached the
\* handler ("exc", and "pipe_exc" for a BrokenPipeError)
StatusOf(k, res) ==
    IF res = "ok" THEN OK
    ELSE IF res = "pipe_exc" /\ k = "summarize" THEN DISCONNECT
    ELSE FAILURE

\* the future completed before the deadline: answer, then finally
Complete(r) ==
    /\ pc[r] = "awaiting"
    /\ wi[r] = "done"
    /\ pc' = [pc EXCEPT ![r] = "done"]
    /\ response' = Reply(r, StatusOf(kind[r], result[r]))
    /\ result' = [result EXCEPT ![r] = "none"]
    /\ kind' = [kind EXCEPT ![r] = "none"]
    /\ Release(r)
    /\ UNCHANGED <<startup, model_cache, load_failed, model_lock, queue, wi>>
    /\ leaked' = leaked \ {r}
    /\ UNCHANGED <<temp_files, call_image>>
    /\ UNCHANGED streamVars
    /\ UNCHANGED besideServer

\* the deadline of r2 is earlier than the deadline of r: r2 was submitted
\* before r with a timeout that is not longer
DueBefore(r2, r) == r2 < r /\ TimeoutOf(kind[r2]) <= TimeoutOf(kind[r])

NeverExpired(r) == FALSE
DeadlineExpiredOnceStarted(r) ==
    wi[r] # "queued" /\ \A r2 \in Awaiting : ~DueBefore(r2, r)
\* the timeout of wait_for can be the next to elapse: the event loop runs
\* the timers in the order of their deadlines, so every waiting handler with
\* an earlier deadline has been resumed before
DeadlineExpired(r) == \A r2 \in Awaiting : ~DueBefore(r2, r)

CancelItemAbort(r) == IF wi[r] = "queued" THEN "cancelled" ELSE "done"
CancelItemNever(r) == wi[r]
\* wait_for cancels the future: a work item still in the queue is cancelled
\* and will never run, one that a thread already runs cannot be cancelled
\* and goes on
CancelItem(r) == IF wi[r] = "queued" THEN "cancelled" ELSE wi[r]

\* the handler stops waiting for its work item
Abandon(r) ==
    /\ wi' = [wi EXCEPT ![r] = CancelItem(r)]
    /\ queue' = Remove(queue, r)
    /\ result' = [result EXCEPT ![r] = "none"]
    /\ kind' = [kind EXCEPT ![r] = IF wi[r] \in Started THEN @ ELSE "none"]

NoRelease(r) == UNCHANGED <<request_semaphore, releases>>
\* the finally block on the timeout path
ReleaseAfterTimeout(r) == Release(r)

\* asyncio.TimeoutError: 504, then finally
Timeout(r) ==
    /\ pc[r] = "awaiting"
    /\ DeadlineExpired(r)
    /\ pc' = [pc EXCEPT ![r] = "done"]
    /\ response' = Reply(r, TIMEOUT)
    /\ Abandon(r)
    /\ ReleaseAfterTimeout(r)
    /\ UNCHANGED <<startup, model_cache, load_failed, model_lock>>
    /\ leaked' = leaked \ {r}
    /\ UNCHANGED <<temp_files, call_image>>
    /\ UNCHANGED streamVars
    /\ UNCHANGED besideServer

\* the handler task is cancelled while it awaits (CancelledError is not an
\* Exception: no except clause runs, the finally block does)
Cancel(r) ==
    /\ pc[r] = "awaiting"
    /\ pc' = [pc EXCEPT ![r] = "done"]
    /\ Abandon(r)
    /\ Release(r)
    /\ UNCHANGED <<startup, model_cache, load_failed, model_lock, response>>
    /\ leaked' = leaked \ {r}
    /\ UNCHANGED <<temp_files, call_image>>
    /\ UNCHANGED streamVars
    /\ UNCHANGED besideServer

\* ------------------------------------------------------------------- health
HealthReadyAny == \E e \in Engines : model_cache[e] # NoHandle
\* GET /health: model_loaded is true only if both caches hold a handle
HealthReady == \A e \in Engines : model_cache[e] # NoHandle

ReasoningHealthReadyVision == model_cache["vision"] # NoHandle
\* GET /reasoning/health: model_loaded of the reasoning cache
ReasoningHealthReady == model_cache["reasoning"] # NoHandle

\* get_model_info()["loaded"] and get_reasoning_model_info()["loaded"]: the
\* engines of es whose cache holds a handle
LoadedAmong(es) == {e \in es : model_cache[e] # NoHandle}

\* the HealthResponse / ReasoningHealthResponse built from the loaded flag;
\* info holds the engines that model_info reports as loaded
HealthReply(p, loaded, es) ==
    [req |-> 0, code |-> OK, path |-> p,
     status |-> IF loaded THEN "healthy" ELSE "model_not_loaded",
     model_loaded |-> loaded,
     info |-> es]

\* GET /health: get_model_info() and get_reasoning_model_info() read the
\* caches, nothing else is touched
Health ==
    /\ Serving
    /\ response' = HealthReply("health", HealthReady, LoadedAmong(Engines))
    /\ UNCHANGED <<startup, model_cache, load_failed, request_semaphore, model_lock,
                   queue, pc, kind, wi, result, releases>>
    /\ UNCHANGED callVars
    /\ UNCHANGED streamVars
    /\ UNCHANGED besideServer

\* GET /reasoning/health
ReasoningHealth ==
    /\ Serving
    /\ response' = HealthReply("reasoning/health", ReasoningHealthReady,
                               LoadedAmong({"reasoning"}))
    /\ UNCHANGED <<startup, model_cache, load_failed, request_semaphore, model_lock,
                   queue, pc, kind, wi, result, releases>>
    /\ UNCHANGED callVars
    /\ UNCHANGED streamVars
    /\ UNCHANGED besideServer

\* ----------------------------------------------------- classify_activity
\* the sequences over S of length n, and of length at most n
RECURSIVE SeqsOfLen(_, _)
SeqsOfLen(S, n) ==
    IF n = 0 THEN {<<>>}
    ELSE {Append(q, x) : q \in SeqsOfLen(S, n - 1), x \in S}
SeqsUpTo(S, n) == UNION {SeqsOfLen(S, m) : m \in 0..n}

\* the ids of the options a client passes
OptionIds == {"a", "b"}
\* the characters of a response of the engine: digits and a letter
DigitValue == [c \in {"0", "1", "2", "3"} |-> CASE c = "0" -> 0 [] c = "1" -> 1
                                                [] c = "2" -> 2 [] c = "3" -> 3]
IsDigit(c) == c \in DOMAIN DigitValue
ResponseChars == DOMAIN DigitValue \cup {"x"}

\* int(): the value of a string of digits
RECURSIVE IntOf(_)
IntOf(d) ==
    IF d = <<>> THEN 0
    ELSE 10 * IntOf(SubSeq(d, 1, Len(d) - 1)) + DigitValue[d[Len(d)]]

\* re.findall(r'\d+', response): whether there is a match, and the first
\* match, which is the longest run of digits that starts at the first digit
HasNumber(s) == \E i \in 1..Len(s) : IsDigit(s[i])
FirstDigit(s) == CHOOSE i \in 1..Len(s) :
                    IsDigit(s[i]) /\ \A j \in 1..(i - 1) : ~IsDigit(s[j])
RunEnd(s, i) == CHOOSE j \in i..Len(s) :
                    /\ \A m \in i..j : IsDigit(s[m])
                    /\ (j = Len(s) \/ ~IsDigit(s[j + 1]))
FirstNumber(s) == SubSeq(s, FirstDigit(s), RunEnd(s, FirstDigit(s)))

IndexOfUnshifted(n) == n
\* idx = int(numbers[0]) - 1
IndexOf(n) == n - 1

\* the dict classify_activity returns; selected is the id of the option, ""
\* in a failure
Classified(ok, id, conf) ==
    [done |-> TRUE, success |-> ok, selected |-> id, confidence |-> conf]
NotClassified == [done |-> FALSE, success |-> FALSE, selected |-> "", confidence |-> 0]

\* classify_activity with a response of the engine: option idx when the
\* first number is an index of the list, else the first option
ClassifyActivity ==
    /\ ~classification.done
    /\ classification' =
         IF options = <<>> THEN Classified(FALSE, "", 0)
         ELSE IF HasNumber(engine_response)
                 /\ 0 <= IndexOf(IntOf(FirstNumber(engine_response)))
                 /\ IndexOf(IntOf(FirstNumber(engine_response))) < Len(options)
              THEN Classified(TRUE,
                              options[IndexOf(IntOf(FirstNumber(engine_response))) + 1],
                              MatchConfidence)
              ELSE Classified(TRUE, options[1], FallbackConfidence)
    /\ UNCHANGED <<options, engine_response>>
    /\ UNCHANGED besideClassify

\* generate_text raises: the except clauses return a failure
ClassifyRaises ==
    /\ ~classification.done
    /\ options # <<>>
    /\ classification' = Classified(FALSE, "", 0)
    /\ UNCHANGED <<options, engine_response>>
    /\ UNCHANGED besideClassify

\* no call of classify_activity is going on
ClassifyIdle ==
    /\ options = <<>>
    /\ engine_response = <<>>
    /\ classification = Classified(FALSE, "", 0)

\* the calls of classify_activity
ClassifyCalls ==
    /\ options \in SeqsUpTo(OptionIds, MaxOptions)
    /\ engine_response \in SeqsUpTo(ResponseChars, MaxResponseLen)
    /\ classification = NotClassified

\* ---------------------------------------- analyze_screenshot: the output
\* the characters of prompts and outputs; a label such as "Assistant:" is
\* kept as one character
White == {"\n", " "}
OutputChars == White \cup {"Assistant:", "Answer:", "x"}

\* str.strip()
RECURSIVE LStrip(_)
LStrip(t) == IF t # <<>> /\ Head(t) \in White THEN LStrip(Tail(t)) ELSE t
RECURSIVE RStrip(_)
RStrip(t) == IF t # <<>> /\ t[Len(t)] \in White
             THEN RStrip(SubSeq(t, 1, Len(t) - 1)) ELSE t
Strip(t) == RStrip(LStrip(t))

\* str.startswith, `sep in t`, and t.split(sep, 1)[1]
StartsWith(t, p) == Len(p) <= Len(t) /\ SubSeq(t, 1, Len(p)) = p
OccursAt(t, sep, i) == i + Len(sep) - 1 <= Len(t) /\ SubSeq(t, i, i + Len(sep) - 1) = sep
Contains(t, sep) == \E i \in 1..Len(t) : OccursAt(t, sep, i)
AfterFirst(t, sep) ==
    LET i == CHOOSE i \in 1..Len(t) :
                OccursAt(t, sep, i) /\ \A j \in 1..(i - 1) : ~OccursAt(t, sep, j)
    IN SubSeq(t, i + Len(sep), Len(t))

\* the list `separators`, in its order
Separators == << <<"\n", "Assistant:">>, <<"\n", "Answer:">>, <<"\n", "Response:">>,
                 <<"\n", "\n">> >>

RECURSIVE CutAtEverySeparator(_, _)
CutAtEverySeparator(d, k) ==
    IF k > Len(Separators) THEN d
    ELSE CutAtEverySeparator(IF Contains(d, Separators[k])
                             THEN Strip(AfterFirst(d, Separators[k])) ELSE d, k + 1)
\* the loop over the separators from the k-th on: the text after the first
\* occurrence of the first separator of the list that occurs
RECURSIVE CutAtSeparator(_, _)
CutAtSeparator(d, k) ==
    IF k > Len(Separators) THEN d
    ELSE IF Contains(d, Separators[k]) THEN Strip(AfterFirst(d, Separators[k]))
    ELSE CutAtSeparator(d, k + 1)

\* description[len(prompt):].strip()
AfterPrompt(d) == Strip(SubSeq(d, Len(prompt) + 1, Len(d)))

\* the description extracted from the output
Normalized ==
    LET d == Strip(output)
    IN CutAtSeparator(IF StartsWith(d, prompt) THEN AfterPrompt(d) ELSE d, 1)

RawConfidenceUncapped(n) == ConfidenceBase + ConfidencePerChar * n
\* min(0.95, 0.5 + len(description) / 500), in thousandths
RawConfidence(n) ==
    IF ConfidenceBase + ConfidencePerChar * n < ConfidenceCap
    THEN ConfidenceBase + ConfidencePerChar * n ELSE ConfidenceCap

\* round(confidence, 2), in hundredths (a raw confidence is an even number
\* of thousandths, so no value lies halfway)
Rounded(t) == (t + 5) \div 10

\* the dict analyze_screenshot returns; confidence in hundredths
Analyzed(ok, d, conf) ==
    [done |-> TRUE, success |-> ok, description |-> d, confidence |-> conf]
NotAnalyzed == [done |-> FALSE, success |-> FALSE, description |-> <<>>, confidence |-> 0]

\* mlx_generate returned: the description is extracted and scored
NormalizeOutput ==
    /\ ~analysis.done
    /\ analysis' = Analyzed(TRUE, Normalized, Rounded(RawConfidence(Len(Normalized))))
    /\ UNCHANGED <<prompt, output>>
    /\ UNCHANGED besideOutput

\* an exception inside the try block: the failure dict
AnalyzeRaises ==
    /\ ~analysis.done
    /\ analysis' = Analyzed(FALSE, <<>>, 0)
    /\ UNCHANGED <<prompt, output>>
    /\ UNCHANGED besideOutput

\* no call of analyze_screenshot is looked at
OutputIdle == prompt = <<>> /\ output = <<>> /\ analysis = Analyzed(FALSE, <<>>, 0)

\* the pieces an output is made of: a letter, or one of the separators
Pieces == {<<"x">>} \cup {Separators[k] : k \in 1..Len(Separators)}

\* the pieces of a list, one after the other
RECURSIVE Flatten(_)
Flatten(q) == IF q = <<>> THEN <<>> ELSE Head(q) \o Flatten(Tail(q))

\* the outputs of mlx_generate: short ones of mixed characters, long ones
\* of one letter, and ones made of letters and separators
OutputCalls ==
    /\ analysis = NotAnalyzed
    /\ \/ /\ prompt \in SeqsUpTo(OutputChars, MaxPromptLen)
          /\ output \in SeqsUpTo(OutputChars, MaxOutputLen)
       \/ /\ prompt = <<>>
          /\ output \in {[i \in 1..n |-> "x"] : n \in (MaxOutputLen + 1)..MaxPlainLen}
       \/ /\ prompt = <<>>
          /\ output \in {Flatten(q) : q \in SeqsUpTo(Pieces, MaxPieces)}

\* ---------------------------------------------------- summarize_activities
\* the texts of the descriptions a client passes
DescriptionTexts == {"a", "b"}

ConsumedAll(d) == d
\* descriptions[:10]
Consumed(d) == SubSeq(d, 1, IF Len(d) < MaxConsumed THEN Len(d) ELSE MaxConsumed)

\* the outcome of summarize_activities: the descriptions listed in the
\* prompt, whether generate_text was called, and the success flag
Summarized(ok, ctx, gen) ==
    [done |-> TRUE, success |-> ok, context |-> ctx, called |-> gen]
NotSummarized == [done |-> FALSE, success |-> FALSE, context |-> <<>>, called |-> FALSE]

\* summarize_activities: no descriptions is a failure returned at once,
\* else the prompt is built and generate_text returns
SummarizeActivities ==
    /\ ~summary.done
    /\ summary' = IF descriptions = <<>> THEN Summarized(FALSE, <<>>, FALSE)
                  ELSE Summarized(TRUE, Consumed(descriptions), TRUE)
    /\ UNCHANGED descriptions
    /\ UNCHANGED besideSummarize

\* generate_text raises: the except clauses return a failure
SummarizeRaises ==
    /\ ~summary.done
    /\ descriptions # <<>>
    /\ summary' = Summarized(FALSE, Consumed(descriptions), TRUE)
    /\ UNCHANGED descriptions
    /\ UNCHANGED besideSummarize

\* no call of summarize_activities is looked at
SummarizeIdle == descriptions = <<>> /\ summary = Summarized(FALSE, <<>>, FALSE)

\* the calls of summarize_activities
SummarizeCalls ==
    /\ descriptions \in SeqsUpTo(DescriptionTexts, MaxDescriptions)
    /\ summary = NotSummarized

\* ------------------------------------------------------------------ shutdown
ShutdownReqs == 1..NumShutdown

\* POST /shutdown: the handler adds shutdown_task to the background tasks
\* and returns the JSONResponse; nothing has been sent yet
ShutdownRequest(q) ==
    /\ Serving
    /\ ~should_exit
    /\ shutdown_pc[q] = "idle"
    /\ shutdown_pc' = [shutdown_pc EXCEPT ![q] = "returned"]
    /\ UNCHANGED <<shutdown_event, should_exit, monitor>>
    /\ UNCHANGED besideShutdown

\* the response is sent, and only then the background task is started: it
\* begins with asyncio.sleep(1)
ShutdownRespond(q) ==
    /\ shutdown_pc[q] = "returned"
    /\ shutdown_pc' = [shutdown_pc EXCEPT ![q] = "sleeping"]
    /\ UNCHANGED <<shutdown_event, should_exit, monitor>>
    /\ UNCHANGED besideShutdown

\* shutdown_task after its sleep: shutdown_event.set()
ShutdownSet(q) ==
    /\ shutdown_pc[q] = "sleeping"
    /\ shutdown_pc' = [shutdown_pc EXCEPT ![q] = "set"]
    /\ shutdown_event' = TRUE
    /\ UNCHANGED <<should_exit, monitor>>
    /\ UNCHANGED besideShutdown

\* how the first step of check_shutdown can go.  shutdown_event is made at
\* import, outside the loop of asyncio.run: from Python 3.10 on an Event takes
\* the running loop when it is first awaited and the task waits; under Python
\* 3.8 and 3.9 (build_server.py accepts 3.8+) the Event belongs to the loop
\* of the import, and `await shutdown_event.wait()` raises RuntimeError (a
\* future attached to a different loop), which ends the task
MonitorOutcomes == {"waiting", "crashed"}

\* check_shutdown, created by run_server, reaches its await
MonitorStart(o) ==
    /\ monitor = "created"
    /\ monitor' = o
    /\ UNCHANGED <<shutdown_pc, shutdown_event, should_exit>>
    /\ UNCHANGED besideShutdown

\* check_shutdown after the event was set: server.should_exit = True
MonitorExit ==
    /\ monitor = "waiting"
    /\ shutdown_event
    /\ monitor' = "done"
    /\ should_exit' = TRUE
    /\ UNCHANGED <<shutdown_pc, shutdown_event>>
    /\ UNCHANGED besideShutdown

\* run_server has created check_shutdown, no shutdown request was made
ShutdownIdle ==
    /\ shutdown_pc = [q \in ShutdownReqs |-> "idle"]
    /\ shutdown_event = FALSE
    /\ should_exit = FALSE
    /\ monitor = "created"

\* ------------------------------------------- analyze_screenshot: the files
\* the file named by the caller's image_path, the temporary file the base64
\* image is decoded into, the temporary file preprocess_screenshot makes, and
\* the temporary files that earlier calls have left on disk
Files == {"caller", "decoded", "cropped", "earlier"}
NoFile == "none"

\* the dict analyze_screenshot returns: success, and the key "preprocessed"
Returned(d, ok, flag) == [done |-> d, success |-> ok, preprocessed |-> flag]
NotReturned == Returned(FALSE, FALSE, FALSE)

\* the files of a list
FilesOf(l) == {l[i] : i \in 1..Len(l)}

\* the input check: ValueError when no image source is given; with both,
\* image_base64 is set to None
CheckInputs ==
    /\ call_pc = "entry"
    /\ call_pc' = IF ~image_path /\ ~image_base64 THEN "raised" ELSE "load"
    /\ image_base64' = (image_base64 /\ ~image_path)
    /\ UNCHANGED <<image_path, preprocess, image_source, temp_files_to_cleanup,
                   was_preprocessed, engine_image, files, unlinked, call_result>>
    /\ UNCHANGED besideFiles

\* load_model() returns the handle or raises into the except clause
LoadModel(ok) ==
    /\ call_pc = "load"
    /\ call_pc' = IF ok THEN "source" ELSE "finally"
    /\ UNCHANGED <<image_path, image_base64, preprocess, image_source,
                   temp_files_to_cleanup, was_preprocessed, engine_image, files, unlinked,
                   call_result>>
    /\ UNCHANGED besideFiles

\* how the image source can be made ready: validate_image_path or
\* decode_base64_image raises, or tmp.write raises
SourceOutcomes == {"ok", "invalid", "write fails"}

\* what follows the image source: preprocessing when it is asked for
AfterSource == IF preprocess THEN "preprocess" ELSE "generate"

\* the path is validated and used, or the base64 image is decoded and
\* written into a temporary file, which is registered after the write
PrepareSource(o) ==
    /\ call_pc = "source"
    /\ o = "write fails" => ~image_path
    /\ call_pc' = IF o = "ok" THEN AfterSource ELSE "finally"
    /\ image_source' = IF o # "ok" THEN image_source
                       ELSE IF image_path THEN "caller" ELSE "decoded"
    /\ files' = IF ~image_path /\ o \in {"ok", "write fails"}
                THEN files \cup {"decoded"} ELSE files
    /\ temp_files_to_cleanup' = IF ~image_path /\ o = "ok"
                                THEN Append(temp_files_to_cleanup, "decoded")
                                ELSE temp_files_to_cleanup
    /\ UNCHANGED <<image_path, image_base64, preprocess, was_preprocessed, engine_image,
                   unlinked, call_result>>
    /\ UNCHANGED besideFiles

\* how the preprocessing can go: no significant border (bounds is None);
\* the image is cropped into a new temporary file; crop_image raises; the
\* write into the new temporary file raises; the import of
\* image_preprocessing raises
PreprocessOutcomes == {"no border", "cropped", "crop fails", "write fails", "import fails"}

\* preprocess_screenshot(image_source): (processed_path, was_cropped); an
\* exception inside it is caught there and the original path is returned
PreprocessScreenshot(src, o) ==
    IF o = "cropped" THEN [path |-> "cropped", was_cropped |-> TRUE]
    ELSE [path |-> src, was_cropped |-> FALSE]

RegisteredAlways(l, ret) == Append(l, ret.path)
\* if was_cropped: temp_files_to_cleanup.append(processed_path)
Registered(l, ret) == IF ret.was_cropped THEN Append(l, ret.path) ELSE l

WasPreprocessedWhenAsked(ret) == TRUE
\* was_preprocessed after the preprocessing block
WasPreprocessed(ret) == ret.was_cropped

\* the preprocessing block: every exception is caught and the call goes on
\* with the image it had
PreprocessImage(o) ==
    /\ call_pc = "preprocess"
    /\ call_pc' = "generate"
    /\ files' = IF o \in {"cropped", "write fails"} THEN files \cup {"cropped"} ELSE files
    /\ IF o = "import fails"
       THEN UNCHANGED <<image_source, temp_files_to_cleanup, was_preprocessed>>
       ELSE LET ret == PreprocessScreenshot(image_source, o)
            IN /\ temp_files_to_cleanup' = Registered(temp_files_to_cleanup, ret)
               /\ image_source' = IF ret.was_cropped THEN ret.path ELSE image_source
               /\ was_preprocessed' = WasPreprocessed(ret)
    /\ UNCHANGED <<image_path, image_base64, preprocess, engine_image, unlinked,
                   call_result>>
    /\ UNCHANGED besideFiles

\* mlx_generate is called with image_source and returns or raises; the
\* result gets the key "preprocessed" on success if was_preprocessed
Generate(ok) ==
    /\ call_pc = "generate"
    /\ call_pc' = "finally"
    /\ engine_image' = image_source
    /\ call_result' = Returned(FALSE, ok, ok /\ was_preprocessed)
    /\ UNCHANGED <<image_path, image_base64, preprocess, image_source,
                   temp_files_to_cleanup, was_preprocessed, files, unlinked>>
    /\ UNCHANGED besideFiles

\* the finally block: every file of temp_files_to_cleanup is unlinked; an
\* unlink that raises (failing) is logged and skipped
Cleanup(failing) ==
    /\ call_pc = "finally"
    /\ failing \subseteq FilesOf(temp_files_to_cleanup)
    /\ call_pc' = "returned"
    /\ unlinked' = FilesOf(temp_files_to_cleanup) \ failing
    /\ files' = files \ (FilesOf(temp_files_to_cleanup) \ failing)
    /\ call_result' = [call_result EXCEPT !.done = TRUE]
    /\ UNCHANGED <<image_path, image_base64, preprocess, image_source,
                   temp_files_to_cleanup, was_preprocessed, engine_image>>
    /\ UNCHANGED besideFiles

\* the next call of analyze_screenshot (the lock lets one call run at a
\* time): new arguments and locals; the temporary files still on disk are
\* files of an earlier call now
NextCall(p, b, pre) ==
    /\ call_pc \in {"returned", "raised"}
    /\ call_pc' = "entry"
    /\ image_path' = p
    /\ image_base64' = b
    /\ preprocess' = pre
    /\ image_source' = NoFile
    /\ temp_files_to_cleanup' = <<>>
    /\ was_preprocessed' = FALSE
    /\ engine_image' = NoFile
    /\ files' = (IF p THEN {"caller"} ELSE {})
                 \cup (IF files \ {"caller"} # {} THEN {"earlier"} ELSE {})
    /\ unlinked' = {}
    /\ call_result' = NotReturned
    /\ UNCHANGED besideFiles

\* no call of analyze_screenshot is looked at
FilesIdle ==
    /\ image_path = FALSE
    /\ image_base64 = FALSE
    /\ preprocess = FALSE
    /\ call_pc = "returned"
    /\ image_source = NoFile
    /\ temp_files_to_cleanup = <<>>
    /\ was_preprocessed = FALSE
    /\ engine_image = NoFile
    /\ files = {}
    /\ unlinked = {}
    /\ call_result = Returned(TRUE, FALSE, FALSE)

\* the calls of analyze_screenshot: the caller's file is on disk when a
\* path is given
FileCalls ==
    /\ image_path \in BOOLEAN
    /\ image_base64 \in BOOLEAN
    /\ preprocess \in BOOLEAN
    /\ call_pc = "entry"
    /\ image_source = NoFile
    /\ temp_files_to_cleanup = <<>>
    /\ was_preprocessed = FALSE
    /\ engine_image = NoFile
    /\ files = (IF image_path THEN {"caller"} ELSE {})
    /\ unlinked = {}
    /\ call_result = NotReturned

Init ==
    ServerInit /\ ClassifyIdle /\ OutputIdle /\ SummarizeIdle /\ ShutdownIdle /\ FilesIdle

Next ==
    \/ StartupLoadBegin
    \/ StartupLoadOk
    \/ StartupLoadFail
    \/ \E r \in Reqs, k \in Endpoints : Admit(r, k)
    \/ \E r \in Reqs, k \in Endpoints : Reject(r, k)
    \/ \E r \in Reqs : RejectInvalid(r)
    \/ \E r \in Reqs : WorkerTake(r)
    \/ \E r \in Reqs, img \in ImageInputs : AcquireLock(r, img)
    \/ \E r \in Reqs : LoadOk(r)
    \/ \E r \in Reqs : LoadFail(r)
    \/ \E r \in Reqs, f \in PrepareOutcomes, c \in CropOutcomes : PrepareImage(r, f, c)
    \/ \E r \in Reqs : EngineOk(r)
    \/ \E r \in Reqs : EngineFail(r)
    \/ \E r \in Reqs : EnginePipe(r)
    \/ \E r \in Reqs : Complete(r)
    \/ \E r \in Reqs : Timeout(r)
    \/ \E r \in Reqs : Cancel(r)

Spec == Init /\ [][Next]_vars

\* time passes and the event loop resumes a handler whose wait is over
HandlerStep(r) == Complete(r) \/ Timeout(r)

\* the event loop resumes every handler whose wait is over; a handler step
\* always moves pc on, so the fairness is stated over pc
FairSpec ==
    /\ Spec
    /\ \A r \in Reqs : WF_pc(HandlerStep(r))

\* a thread of the pool goes on with the work item it runs: it gets the lock
\* when the lock is free, and the load, the image preparation and the
\* generate call it makes return or raise
WorkItemStep(r) ==
    \/ \E img \in ImageInputs : AcquireLock(r, img)
    \/ LoadOk(r)
    \/ LoadFail(r)
    \/ \E f \in PrepareOutcomes, c \in CropOutcomes : PrepareImage(r, f, c)
    \/ EngineOk(r)
    \/ EngineFail(r)
    \/ EnginePipe(r)

\* the gateway when every call into an engine terminates; a work item step
\* always moves wi on, so the fairness is stated over wi
TerminatingSpec ==
    /\ Spec
    /\ \A r \in Reqs : WF_wi(WorkItemStep(r))

\* how _inference_pool.shutdown(wait=True, cancel_futures=False) can go: it
\* waits for the threads of the pool; or, under Python 3.8 (build_server.py
\* accepts 3.8+), where shutdown() has no parameter cancel_futures, it raises
\* TypeError at the call
PoolShutdownOutcomes == {"waits", "type error"}

\* lifespan() is resumed after its yield and calls _inference_pool.shutdown
LifespanShutdown(o) ==
    /\ startup = "serving"
    /\ startup' = IF o = "waits" THEN "pool_shutdown" ELSE "raised"
    /\ UNCHANGED <<model_cache, load_failed, request_semaphore, model_lock, queue, pc, kind,
                   response, wi, result, releases>>
    /\ UNCHANGED callVars
    /\ UNCHANGED streamVars
    /\ UNCHANGED besideServer

\* shutdown(wait=True) returns: the threads of the pool have ended, which
\* they do when the work queue is empty and no work item runs
PoolShutdownReturns ==
    /\ startup = "pool_shutdown"
    /\ Running = {}
    /\ queue = <<>>
    /\ startup' = "stopped"
    /\ UNCHANGED <<model_cache, load_failed, request_semaphore, model_lock, queue, pc, kind,
                   response, wi, result, releases>>
    /\ UNCHANGED callVars
    /\ UNCHANGED streamVars
    /\ UNCHANGED besideServer

\* shutdown(wait=True) is a blocking call made on the event loop: no handler
\* runs until it returns
EventLoopFree == startup # "pool_shutdown"

\* the gateway and the end of lifespan(): while the event loop is blocked
\* only the threads of the pool go on
DrainNext ==
    \/ EventLoopFree /\ Next
    \/ ~EventLoopFree /\ \E r \in Reqs : WorkerTake(r) \/ WorkItemStep(r)
    \/ \E o \in PoolShutdownOutcomes : LifespanShutdown(o)
    \/ PoolShutdownReturns
DrainSpec == Init /\ [][DrainNext]_vars

\* the gateway with clients that also ask for its health
HealthNext == Next \/ Health \/ ReasoningHealth
HealthSpec == Init /\ [][HealthNext]_vars

\* every output analyze_screenshot can get from the engine
OutputNext == NormalizeOutput \/ AnalyzeRaises
OutputInit ==
    ServerInit /\ ClassifyIdle /\ OutputCalls /\ SummarizeIdle /\ ShutdownIdle
    /\ FilesIdle
OutputSpec == OutputInit /\ [][OutputNext]_vars

\* startup of the server and the shutdown requests
ShutdownNext ==
    \/ StartupLoadBegin
    \/ StartupLoadOk
    \/ StartupLoadFail
    \/ \E o \in MonitorOutcomes : MonitorStart(o)
    \/ MonitorExit
    \/ \E q \in ShutdownReqs : ShutdownRequest(q)
    \/ \E q \in ShutdownReqs : ShutdownRespond(q)
    \/ \E q \in ShutdownReqs : ShutdownSet(q)

\* the event loop runs every task that is ready
ShutdownSpec ==
    /\ Init
    /\ [][ShutdownNext]_vars
    /\ WF_vars(\E o \in MonitorOutcomes : MonitorStart(o))
    /\ WF_vars(MonitorExit)
    /\ \A q \in ShutdownReqs : WF_vars(ShutdownRespond(q) \/ ShutdownSet(q))

\* every call of analyze_screenshot, as far as its files go
FilesNext ==
    \/ CheckInputs
    \/ \E ok \in BOOLEAN : LoadModel(ok)
    \/ \E o \in SourceOutcomes : PrepareSource(o)
    \/ \E o \in PreprocessOutcomes : PreprocessImage(o)
    \/ \E ok \in BOOLEAN : Generate(ok)
    \/ \E failing \in SUBSET Files : Cleanup(failing)
    \/ \E p \in BOOLEAN, b \in BOOLEAN, pre \in BOOLEAN : NextCall(p, b, pre)
FilesInit ==
    ServerInit /\ ClassifyIdle /\ OutputIdle /\ SummarizeIdle /\ ShutdownIdle /\ FileCalls
FilesSpec == FilesInit /\ [][FilesNext]_vars

\* every call of summarize_activities
SummarizeNext == SummarizeActivities \/ SummarizeRaises
SummarizeInit ==
    ServerInit /\ ClassifyIdle /\ OutputIdle /\ SummarizeCalls /\ ShutdownIdle
    /\ FilesIdle
SummarizeSpec == SummarizeInit /\ [][SummarizeNext]_vars

\* every call of classify_activity
ClassifyNext == ClassifyActivity \/ ClassifyRaises
ClassifyInit ==
    ServerInit /\ ClassifyCalls /\ OutputIdle /\ SummarizeIdle /\ ShutdownIdle
    /\ FilesIdle
ClassifySpec == ClassifyInit /\ [][ClassifyNext]_vars


TypeOK ==
    /\ startup \in {"vlm", "vlm_loading", "reasoning", "reasoning_loading", "serving",
                    "pool_shutdown", "stopped", "raised"}
    /\ model_cache \in [Engines -> {NoHandle, StartupHandle, RequestHandle}]
    /\ load_failed \subseteq Engines
    /\ request_semaphore \in Int
    /\ model_lock \subseteq Reqs
    /\ pc \in [Reqs -> {"idle", "awaiting", "done"}]
    /\ kind \in [Reqs -> Endpoints \cup {"none"}]
    /\ response \in [req : 0..NumReq,
                      code : {0, OK, FAILURE, BUSY, TIMEOUT, DISCONNECT, UNPROCESSABLE},
                      path : {"none", "inference", "health", "reasoning/health"},
                      status : {"n/a", "healthy", "model_not_loaded"},
                      model_loaded : BOOLEAN,
                      info : SUBSET Engines]
    /\ wi \in [Reqs -> {"none", "queued", "cancelled", "waitlock", "loading", "prepare",
                         "engine", "done"}]
    /\ result \in [Reqs -> {"none", "ok", "fail", "pipe", "exc", "pipe_exc"}]
    /\ releases \in [Reqs -> 0..2]
    /\ temp_files \subseteq TempFiles
    /\ call_image \in (ImageInputs \ {"none"}) \cup {"n/a"}
    /\ leaked \subseteq Awaiting
    /\ sys_stdout \in {ProcessStdout} \cup {Devnull(c) : c \in Callers}
    /\ sys_stderr \in {ProcessStderr} \cup {Devnull(c) : c \in Callers}
    /\ original_stdout \in [Callers -> {NoStream, ProcessStdout}]
    /\ original_stderr \in [Callers -> {NoStream, ProcessStderr}]
    /\ shutdown_pc \in [ShutdownReqs -> {"idle", "returned", "sleeping", "set"}]
    /\ shutdown_event \in BOOLEAN
    /\ should_exit \in BOOLEAN
    /\ monitor \in {"created", "waiting", "crashed", "done"}


\* ===================================================================== claims

\* C1: in every reachable state the value of the request semaphore is within
\* 0..max_concurrent_requests and at most max_concurrent_requests requests
\* hold a permit (are admitted and have not yet released)
C1_PermitsBounded ==
    /\ request_semaphore >= 0
    /\ request_semaphore <= max_concurrent_requests
    /\ Cardinality(Awaiting) <= max_concurrent_requests

\* both permits were taken, one was released since, and the value is back
\* at the maximum
C1_Witness ==
    /\ request_semaphore = max_concurrent_requests
    /\ \E r1, r2 \in Reqs : r1 # r2 /\ releases[r1] = 1 /\ releases[r2] = 1

\* a request was admitted: Admit gave it a work item
Admitted(r) == wi[r] # "none"

\* C2: every admitted request releases its permit exactly once: never while
\* it waits, once when its handler has ended by whichever path, never twice
C2_ReleasedExactlyOnce ==
    \A r \in Reqs :
        /\ releases[r] <= 1
        /\ (pc[r] = "awaiting" => releases[r] = 0)
        /\ (pc[r] = "done" /\ Admitted(r) => releases[r] = 1)

\* a request has left by the timeout path while its work item still runs,
\* and holds one release
C2_Witness ==
    \E r \in Reqs :
        /\ response = Reply(r, TIMEOUT)
        /\ wi[r] \in Started
        /\ releases[r] = 1

\* the step in which request r arrives
Arrives(r) == pc[r] = "idle" /\ pc'[r] # "idle"

\* the step in which the handler of request r is entered: the request
\* arrives and its body fits the request model
HandlerEntered(r) == Arrives(r) /\ response' # Reply(r, UNPROCESSABLE)

\* C3: a request that arrives while max_concurrent_requests admitted requests
\* have not completed is rejected as busy at once, any other arriving request
\* is admitted; when no admitted request is left the semaphore has its
\* initial value again
C3_Burst ==
    /\ [][\A r \in Reqs : HandlerEntered(r) =>
            IF Cardinality(Awaiting) >= max_concurrent_requests
            THEN /\ pc'[r] = "done"
                 /\ response' = Reply(r, BUSY)
                 /\ Awaiting' = Awaiting
            ELSE /\ pc'[r] = "awaiting"
                 /\ response' = response]_vars
    /\ [](Awaiting = {} => request_semaphore = max_concurrent_requests)
    /\ [](max_concurrent_requests - request_semaphore = Cardinality(Awaiting))

\* a burst of NumReq requests of which none has completed: two wait, the
\* last one was answered busy
C3_Witness ==
    /\ \A r \in Reqs : pc[r] # "idle"
    /\ Cardinality(Awaiting) = max_concurrent_requests
    /\ response.code = BUSY
    /\ \A r \in Reqs : releases[r] = 0

\* C4: the step that rejects a request answers 503 and changes nothing else:
\* no work item, no pool queue entry, no lock, no load, no cache change, and
\* the semaphore keeps its value; a rejected request never releases
C4_RejectDoesNothing ==
    /\ [][\A r \in Reqs : (HandlerEntered(r) /\ pc'[r] = "done") =>
            /\ response' = Reply(r, BUSY)
            /\ UNCHANGED <<request_semaphore, queue, wi, result, model_lock,
                           model_cache, load_failed, releases, kind,
                           startup>>]_vars
    /\ [](\A r \in Reqs : (pc[r] = "done" /\ ~Admitted(r)) => releases[r] = 0)
    /\ [](response.code = BUSY =>
            /\ ~Admitted(response.req)
            /\ response.req \notin model_lock)

\* a request was rejected while both permits were held
C4_Witness ==
    /\ response.code = BUSY
    /\ pc[response.req] = "done"
    /\ wi[response.req] = "none"
    /\ request_semaphore = 0

\* C5: under the fairness of the event loop (timers fire, a handler whose
\* wait is over is resumed) every admitted request eventually has released
\* its permit, although no engine call is required to return
C5_PermitEventuallyReleased ==
    \A r \in Reqs : (pc[r] = "awaiting") ~> (pc[r] = "done" /\ releases[r] = 1)

\* a request has released its permit after its deadline while its work item
\* is still blocked on the lock
C5_Witness ==
    \E r \in Reqs :
        /\ response = Reply(r, TIMEOUT)
        /\ pc[r] = "done"
        /\ releases[r] = 1
        /\ wi[r] = "waitlock"
        /\ model_lock # {}

\* work items that are inside the engine function (load or generate)
InCall == {r \in Reqs : wi[r] \in {"loading", "prepare", "engine"}}

\* C6: at any instant at most one work item per engine kind is inside the
\* engine call, and every work item inside the engine function holds the lock
C6_SameKindExclusive ==
    /\ \A e \in Engines :
         Cardinality({r \in InCall : EngineOf(kind[r]) = e}) <= 1
    /\ \A r \in InCall : r \in model_lock

\* one call executes while a started work item of the same engine kind waits
\* for the lock
C6_Witness ==
    \E r1, r2 \in Reqs :
        /\ wi[r1] = "engine"
        /\ wi[r2] = "waitlock"
        /\ EngineOf(kind[r1]) = EngineOf(kind[r2])

\* C7, as stated: the lock of one engine kind is independent of the other
\* kind, so a started work item is never kept waiting by a call of the other
\* engine kind (it can take its lock whenever no call of its own kind runs)
C7_IndependentLocks ==
    \A r \in Reqs :
        (/\ wi[r] = "waitlock"
         /\ \A h \in InCall : EngineOf(kind[h]) # EngineOf(kind[r]))
        => ENABLED (\E img \in ImageInputs : AcquireLock(r, img))

\* C7, amended: calls of different engine kinds never overlap either; at any
\* instant at most one work item, of whatever kind, is inside an engine call
C7_OneCallAtATime == Cardinality(InCall) <= 1

\* a vision call executes while a started reasoning work item waits for the
\* lock
C7_Witness ==
    \E r1, r2 \in Reqs :
        /\ wi[r1] = "engine" /\ EngineOf(kind[r1]) = "vision"
        /\ wi[r2] = "waitlock" /\ EngineOf(kind[r2]) = "reasoning"

\* the step in which request r is answered 504
TimesOut(r) ==
    /\ pc[r] = "awaiting"
    /\ pc'[r] = "done"
    /\ response' = Reply(r, TIMEOUT)

\* C8: a request is answered 504 only when its deadline has passed, and that
\* step neither aborts its started work item nor frees the lock; a work item
\* leaves the lock only by finishing its call, and a work item enters the
\* lock only when no other holds it; while handlers wait, one of them can
\* be timed out whatever the work items do
C8_TimeoutKeepsLock ==
    /\ [][\A r \in Reqs : TimesOut(r) =>
            /\ \A r2 \in Awaiting : ~DueBefore(r2, r)
            /\ (wi[r] \in Started => wi'[r] = wi[r])
            /\ model_lock' = model_lock
            /\ model_cache' = model_cache]_vars
    /\ [][\A r \in Reqs : (r \in model_lock /\ r \notin model_lock') =>
            (wi[r] \in {"loading", "prepare", "engine"} /\ wi'[r] = "done")]_vars
    /\ [][\A r \in Reqs : (r \notin model_lock /\ r \in model_lock') =>
            model_lock = {}]_vars
    /\ [](\A r \in Awaiting : \E r2 \in Awaiting : ENABLED Timeout(r2))

\* a request was answered 504 while its engine call goes on with the lock,
\* and a later request of the same engine kind waits for the lock
C8_Witness ==
    \E r1, r2 \in Reqs :
        /\ r1 < r2
        /\ response = Reply(r1, TIMEOUT)
        /\ wi[r1] = "engine" /\ r1 \in model_lock
        /\ pc[r2] = "awaiting" /\ wi[r2] = "waitlock"
        /\ EngineOf(kind[r1]) = EngineOf(kind[r2])

\* C9, as stated: once a load attempt of an engine kind has failed, no
\* request makes another load attempt for that kind
C9_FailureCached ==
    \A r \in Reqs : wi[r] = "loading" => EngineOf(kind[r]) \notin load_failed

\* the step in which the work item of r takes the lock and stays in the call
EntersCall(r) == r \notin model_lock /\ r \in model_lock'

\* C9, amended: a failed load caches nothing; a work item that enters the
\* engine function makes a load attempt exactly when the cache is empty,
\* also after earlier failures, and calls the engine only with a handle
C9_LoadWhenCacheEmpty ==
    /\ [][\A r \in Reqs : EntersCall(r) =>
            wi'[r] = IF model_cache[EngineOf(kind[r])] = NoHandle
                     THEN "loading" ELSE AfterLoad(kind[r])]_vars
    /\ [][\A e \in Engines : (e \in load_failed' /\ e \notin load_failed) =>
            (model_cache[e] = NoHandle /\ model_cache'[e] = NoHandle)]_vars
    /\ [](\A r \in Reqs : wi[r] = "loading" => model_cache[EngineOf(kind[r])] = NoHandle)
    /\ [](\A r \in Reqs : wi[r] = "engine" => model_cache[EngineOf(kind[r])] # NoHandle)

\* a request makes a load attempt for an engine kind of which a load failed
C9_Witness ==
    \E r \in Reqs :
        /\ wi[r] = "loading"
        /\ EngineOf(kind[r]) \in load_failed
        /\ model_cache[EngineOf(kind[r])] = NoHandle

\* number of loads of engine e in progress
LoadsInProgress(e) ==
    (IF startup \in {"vlm_loading", "reasoning_loading"} /\ StartupEngine = e THEN 1 ELSE 0)
    + Cardinality({r \in Reqs : wi[r] = "loading" /\ EngineOf(kind[r]) = e})

\* C10, as stated: never two loads of one engine kind in progress, and all
\* callers observe the same outcome: no engine kind has both a caller that
\* observed a load failure and a caller that observed a handle
C10_SingleFlightSameOutcome ==
    \A e \in Engines :
        /\ LoadsInProgress(e) <= 1
        /\ ~(e \in load_failed /\ model_cache[e] # NoHandle)

\* C10, amended: never two loads of one engine kind in progress, no load
\* runs while requests are not yet served or while the cache is filled, and
\* a cached handle is the one every later caller gets (it is never replaced);
\* callers after a failed load make their own attempt
C10_SingleFlight ==
    /\ [](\A e \in Engines :
            /\ LoadsInProgress(e) <= 1
            /\ (LoadsInProgress(e) = 1 => model_cache[e] = NoHandle))
    /\ [](startup # "serving" => \A r \in Reqs : pc[r] = "idle")
    /\ [][\A e \in Engines : model_cache[e] # NoHandle =>
            model_cache'[e] = model_cache[e]]_vars

\* a request loads an engine whose startup load failed while another request
\* of the same engine kind has started and waits
C10_Witness ==
    \E r1, r2 \in Reqs :
        /\ wi[r1] = "loading"
        /\ wi[r2] = "waitlock"
        /\ EngineOf(kind[r1]) = EngineOf(kind[r2])
        /\ LoadsInProgress(EngineOf(kind[r1])) = 1

\* C11: a cached handle stays: the cache entry of an engine kind never
\* returns to empty and is never replaced, no load of that kind is in
\* progress while the entry is filled, and a work item that enters the engine
\* function with the entry filled goes to the engine without a load
C11_LoadedStays ==
    /\ [][\A e \in Engines : model_cache[e] # NoHandle =>
            /\ model_cache'[e] = model_cache[e]
            /\ \A r \in Reqs : (EngineOf(kind'[r]) = e => wi'[r] # "loading")]_vars
    /\ [](\A e \in Engines : model_cache[e] # NoHandle => LoadsInProgress(e) = 0)

\* a request is in the engine with the handle that was cached at startup,
\* after another request has already completed
C11_Witness ==
    \E r, r2 \in Reqs :
        /\ wi[r] = "engine"
        /\ model_cache[EngineOf(kind[r])] = StartupHandle
        /\ pc[r2] = "done" /\ wi[r2] = "done"

\* the step in which request r gets its response
Answered(r) == response'.req = r /\ response.req # r

\* C12, as stated: once a load of an engine kind has failed, no request of
\* that kind is answered as a success and the health endpoint stays not-ready
C12_FailureSticks ==
    /\ [][\A r \in Reqs : (Answered(r) /\ pc[r] = "awaiting"
                           /\ EngineOf(kind[r]) \in load_failed)
            => response'.code # OK]_vars
    /\ [](load_failed # {} => ~HealthReady)

\* C12, amended: the request whose own load attempt fails gets a failure
\* result and nothing is cached; a request is answered as a success only with
\* a cached handle; the health endpoint reports ready exactly when both
\* caches are filled, whatever failed before, and then no load is running
C12_FailsOnOwnLoad ==
    /\ [][\A r \in Reqs : (wi[r] = "loading" /\ wi'[r] = "done") =>
            /\ model_cache' = model_cache
            /\ (pc[r] = "awaiting" => result'[r] = "fail")]_vars
    /\ [][\A r \in Reqs : (Answered(r) /\ response'.code = OK) =>
            model_cache[EngineOf(kind[r])] # NoHandle]_vars
    /\ [](HealthReady => \A r \in Reqs : wi[r] # "loading")
    /\ [](ReasoningHealthReady => LoadsInProgress("reasoning") = 0)

\* the startup load of the vision engine failed, a request loaded it later
\* and a request was answered as a success; health reports ready
C12_Witness ==
    /\ "vision" \in load_failed
    /\ model_cache["vision"] = RequestHandle
    /\ HealthReady
    /\ response.code = OK

\* C14: engine calls run only in work items of the pool: at most max_workers
\* work items are started (in the call or blocked on the lock), a work item
\* starts only from the head of the queue when a thread is free, and every
\* other submitted work item is in the queue, unstarted
C14_PoolCeiling ==
    /\ [](Cardinality(Running) <= max_workers)
    /\ [](InCall \subseteq Running)
    /\ [](\A r \in Reqs : wi[r] = "queued" <=> (\E i \in 1..Len(queue) : queue[i] = r))
    /\ [][\A r \in Reqs : (r \notin Running /\ r \in Running') =>
            /\ Cardinality(Running) < max_workers
            /\ queue # <<>> /\ r = Head(queue)]_vars

\* both threads of the pool run a work item and a third work item waits in
\* the queue
C14_Witness ==
    /\ Cardinality(Running) = max_workers
    /\ queue # <<>>

\* outcomes of a work item that are an engine failure: a result without
\* success, or an exception of the engine function
FailureOutcomes == {"fail", "pipe", "exc"}

\* C18: the status of a response is decided by the outcome: 503 only for a
\* request refused at admission, 504 only for a waiting request whose deadline
\* has passed, 200 only for a work item that succeeded, 500 only for a work
\* item that returned a failure or raised; the four statuses are distinct
C18_DistinctStatuses ==
    /\ [](Cardinality({BUSY, TIMEOUT, FAILURE, OK}) = 4)
    /\ [][\A r \in Reqs : Answered(r) =>
            /\ (response'.code = BUSY => pc[r] = "idle" /\ request_semaphore = 0)
            /\ (response'.code = TIMEOUT =>
                    pc[r] = "awaiting" /\ \A r2 \in Awaiting : ~DueBefore(r2, r))
            /\ (response'.code = OK =>
                    pc[r] = "awaiting" /\ wi[r] = "done" /\ result[r] = "ok")
            /\ (response'.code = FAILURE =>
                    pc[r] = "awaiting" /\ wi[r] = "done" /\ result[r] \in FailureOutcomes)
            /\ (response'.code = UNPROCESSABLE => pc[r] = "idle")
            /\ (pc[r] = "awaiting" /\ result[r] \in FailureOutcomes
                    => response'.code \in {FAILURE, TIMEOUT})]_vars

\* a request was answered 500 while the work item of a request that had
\* timed out is still started
C18_Witness ==
    /\ response.code = FAILURE
    /\ \E r \in Reqs : pc[r] = "done" /\ wi[r] \in Started /\ r # response.req

\* the step in which the handler of request r ends
Completes(r) == pc[r] = "awaiting" /\ pc'[r] = "done"

\* a temporary file made by the call of request r is on disk
FileOnDisk(r) == (r \in model_lock /\ temp_files # {}) \/ r \in leaked

\* C13, as stated: at the moment a request completes towards the client, by
\* success, failure or timeout, no temporary file made for it is on disk
C13_NoFileAtCompletion ==
    [][\A r \in Reqs : Completes(r) => ~FileOnDisk(r)]_vars

\* the allowed steps of a work item
WorkItemOrder ==
    {<<"none", "queued">>, <<"queued", "waitlock">>, <<"queued", "cancelled">>,
     <<"waitlock", "loading">>, <<"waitlock", "prepare">>, <<"waitlock", "engine">>,
     <<"waitlock", "done">>, <<"loading", "prepare">>, <<"loading", "engine">>,
     <<"loading", "done">>, <<"prepare", "engine">>, <<"prepare", "done">>,
     <<"engine", "done">>}

\* the step in which the image of request r is validated and its temporary
\* files are made
PreparesImage(r) == wi[r] = "prepare" /\ wi'[r] # "prepare"

PastInputCheck == {r \in InCall : kind[r] = "analyze"}

InputErrorFound(r) ==
    \/ Answered(r) /\ response'.code = UNPROCESSABLE
    \/ wi[r] = "waitlock" /\ wi'[r] = "done"

\* C17, as stated: an input error is found at once: the request has taken
\* no permit, has no work item and has waited neither for a thread of the
\* pool nor for the lock
C17_InvalidSurfacedAtOnce ==
    [][\A r \in Reqs : InputErrorFound(r) =>
            /\ pc[r] = "idle"
            /\ wi[r] = "none"
            /\ request_semaphore' = request_semaphore]_vars

C20_ErrorsRecovered ==
    [][\A r \in Reqs : (Completes(r) /\ wi[r] = "done" /\ result[r] \in FailureOutcomes
                        /\ Answered(r))
            => /\ response'.code \in {FAILURE, TIMEOUT}
               /\ releases'[r] = 1
               /\ ~FileOnDisk(r)]_vars

\* C22: a successful classify selects an option of the list: option k with
\* confidence 0.8 when the first number of the response is k and 1 <= k <=
\* number of options, otherwise the first option with confidence 0.5
C22_SelectsFromOptions ==
    (classification.done /\ classification.success) =>
        /\ options # <<>>
        /\ \E i \in 1..Len(options) : classification.selected = options[i]
        /\ IF /\ HasNumber(engine_response)
              /\ IntOf(FirstNumber(engine_response)) \in 1..Len(options)
           THEN /\ classification.selected = options[IntOf(FirstNumber(engine_response))]
                /\ classification.confidence = MatchConfidence
           ELSE /\ classification.selected = options[1]
                /\ classification.confidence = FallbackConfidence

\* a response whose first number, after a letter, is the index of the last
\* of three options, followed by another digit run: the last option was
\* selected with confidence 0.8
C22_Witness ==
    /\ classification.done /\ classification.success
    /\ options = <<"a", "a", "b">>
    /\ engine_response = <<"x", "0", "3">>
    /\ classification.selected = "b"
    /\ classification.confidence = MatchConfidence

\* the output is the prompt, then a newline and "Assistant:", then a
\* generated text of letters only
EchoThenSeparator ==
    /\ StartsWith(output, prompt \o <<"\n", "Assistant:">>)
    /\ Len(output) > Len(prompt) + 2
    /\ \A i \in (Len(prompt) + 3)..Len(output) : output[i] = "x"

\* C23, as stated: when the output is the prompt, a newline, "Assistant:"
\* and the generated text, the description is exactly the generated text
C23_SeparatorStripped ==
    (analysis.done /\ analysis.success /\ EchoThenSeparator) =>
        analysis.description = SubSeq(output, Len(prompt) + 3, Len(output))

\* C24, as stated: the confidence of a success equals
\* min(0.95, 0.5 + length / 500) of the description
C24_ExactFormula ==
    (analysis.done /\ analysis.success) =>
        10 * analysis.confidence = RawConfidence(Len(analysis.description))

\* C24, amended: the confidence of a success is min(0.95, 0.5 + length / 500)
\* rounded to two decimals, within 0.5 .. 0.95, and is not lower for a longer
\* description; the confidence of a failure is 0.0
C24_ConfidenceBounded ==
    /\ analysis.done =>
          /\ analysis.confidence \in 0..100
          /\ analysis.success =>
                /\ analysis.confidence \in 50..95
                /\ LET t == ConfidenceBase + ConfidencePerChar * Len(analysis.description)
                   IN  /\ 10 * analysis.confidence - (IF t < ConfidenceCap THEN t ELSE ConfidenceCap)
                            \in -5..4
                       /\ analysis.confidence = 95 <=> t >= ConfidenceCap - 5
          /\ ~analysis.success => analysis.confidence = 0
    /\ (analysis.done /\ analysis.success) =>
          \A n \in 0..Len(analysis.description) :
              Rounded(RawConfidence(n)) <= analysis.confidence

\* a description long enough for the cap got the confidence 0.95
C24_Witness ==
    /\ analysis.done /\ analysis.success
    /\ Len(analysis.description) > 225
    /\ analysis.confidence = 95

\* C25: the prompt of summarize lists the first 10 descriptions at most, in
\* their order, and none after the tenth; an empty list is a failure for
\* which the engine is not called
C25_FirstTenOnly ==
    summary.done =>
        /\ descriptions = <<>> => ~summary.success /\ ~summary.called
        /\ summary.called =>
              /\ Len(summary.context) <= MaxConsumed
              /\ Len(summary.context) = (IF Len(descriptions) < MaxConsumed
                                         THEN Len(descriptions) ELSE MaxConsumed)
              /\ \A i \in 1..Len(summary.context) : summary.context[i] = descriptions[i]

\* eleven descriptions of which only the last is "b": the prompt lists ten
\* and has no "b"
C25_Witness ==
    /\ summary.done /\ summary.success
    /\ Len(descriptions) = MaxConsumed + 1
    /\ descriptions[MaxConsumed + 1] = "b"
    /\ \A i \in 1..MaxConsumed : descriptions[i] = "a"
    /\ Len(summary.context) = MaxConsumed
    /\ \A i \in 1..Len(summary.context) : summary.context[i] = "a"

\* C26, as stated: the shutdown event is set only after the response of a
\* shutdown request was sent; the exit flag is not set by the handler or
\* before the event; and once the event is set the exit flag eventually
\* becomes true
C26_DeferredExit ==
    /\ [][\A q \in ShutdownReqs :
            (shutdown_pc[q] # "set" /\ shutdown_pc'[q] = "set") => shutdown_pc[q] = "sleeping"]_vars
    /\ [](shutdown_event => \E q \in ShutdownReqs : shutdown_pc[q] = "set")
    /\ [](should_exit => shutdown_event)
    /\ [][should_exit' # should_exit => shutdown_pc' = shutdown_pc]_vars
    /\ (shutdown_event ~> should_exit)

\* the step in which a health endpoint answers
HealthAnswers(p) == response' # response /\ response'.path = p

\* C21: /health answers healthy with model_loaded true exactly when both
\* caches hold a handle, else model_not_loaded; /reasoning/health answers
\* healthy exactly when the reasoning cache holds a handle; neither takes a
\* permit or the lock or starts a load or changes anything but the response
C21_HealthReports ==
    /\ [][HealthAnswers("health") =>
            /\ response'.status = (IF \A e \in Engines : model_cache[e] # NoHandle
                                   THEN "healthy" ELSE "model_not_loaded")
            /\ response'.model_loaded = (response'.status = "healthy")
            /\ response'.code = OK]_vars
    /\ [][HealthAnswers("reasoning/health") =>
            /\ response'.status = (IF model_cache["reasoning"] # NoHandle
                                   THEN "healthy" ELSE "model_not_loaded")
            /\ response'.model_loaded = (response'.status = "healthy")
            /\ response'.code = OK]_vars
    /\ [][(HealthAnswers("health") \/ HealthAnswers("reasoning/health")) =>
            UNCHANGED <<startup, model_cache, load_failed, request_semaphore, model_lock,
                        queue, pc, kind, wi, result, releases, callVars>>]_vars

\* /health answered model_not_loaded while only the vision engine is
\* loaded and a call holds the lock
C21_Witness ==
    /\ response.path = "health"
    /\ response.status = "model_not_loaded"
    /\ ~response.model_loaded
    /\ model_cache["vision"] # NoHandle
    /\ model_cache["reasoning"] = NoHandle
    /\ model_lock # {}

\* the step in which a load of lifespan raises
StartupLoadFails == startup \in {"vlm_loading", "reasoning_loading"}
                    /\ load_failed' # load_failed

\* C27: a load that fails at startup does not stop the startup: after a
\* failure of the vision load the reasoning load is made, after the last
\* load the server serves and admits requests, and as long as the cache of
\* a failed engine is empty the health endpoints report it as not loaded
C27_StartupFailureNotFatal ==
    /\ [][StartupLoadFails =>
            startup' = (IF startup = "vlm_loading" THEN "reasoning" ELSE "serving")]_vars
    /\ [](startup = "reasoning" => ENABLED StartupLoadBegin)
    /\ []((Serving /\ request_semaphore > 0 /\ \E r \in Reqs : pc[r] = "idle")
            => ENABLED (\E r \in Reqs, k \in Endpoints : Admit(r, k)))
    /\ [][\A e \in Engines :
            (HealthAnswers("health") /\ model_cache[e] = NoHandle) =>
                /\ e \notin response'.info
                /\ response'.status = "model_not_loaded"
                /\ ~response'.model_loaded]_vars

\* both loads failed at startup, the server serves, a request was admitted
\* and /health has answered model_not_loaded with no engine loaded
C27_Witness ==
    /\ Serving
    /\ load_failed = Engines
    /\ \A e \in Engines : model_cache[e] = NoHandle
    /\ \E r \in Reqs : pc[r] = "awaiting"
    /\ response.path = "health"
    /\ response.status = "model_not_loaded"
    /\ response.info = {}

\* C28: the deadline of a request does not depend on how far its work item
\* got, so it covers the wait for a thread and for the lock; while another
\* work item holds the lock, the work item of a request neither enters the
\* call nor finishes, and a waiting handler whose work item has not finished
\* is answered only 504; permits come back, so admission does not answer
\* busy for ever
C28_DeadlineCoversWaiting ==
    /\ [](\A r \in Awaiting :
            (\A r2 \in Awaiting : ~DueBefore(r2, r)) => ENABLED Timeout(r))
    /\ [][\A h \in Reqs, r \in Reqs :
            (h # r /\ h \in model_lock /\ h \in model_lock' /\ wi[r] \in {"queued", "waitlock"})
                => wi'[r] \in {"queued", "waitlock", "cancelled"}]_vars
    /\ [][\A r \in Reqs :
            (pc[r] = "awaiting" /\ wi[r] # "done" /\ Answered(r))
                => response' = Reply(r, TIMEOUT)]_vars
    /\ ((request_semaphore = 0) ~> (request_semaphore > 0))

\* a summarize call holds the lock and its handler still waits; a classify
\* request behind it was answered 504 with its work item blocked on the
\* lock; a request that arrived after that is admitted
C28_Witness ==
    \E h, r, n \in Reqs :
        /\ h < r /\ r < n
        /\ kind[h] = "summarize" /\ wi[h] = "engine" /\ pc[h] = "awaiting"
        /\ kind[r] = "classify" /\ wi[r] = "waitlock" /\ pc[r] = "done"
        /\ response = Reply(r, TIMEOUT)
        /\ pc[n] = "awaiting"

\* C29: at the timeout of its request a work item that no thread has taken
\* is cancelled: it leaves the queue and never takes the lock or calls the
\* engine; a work item a thread has taken, even one blocked on the lock, is
\* left as it is and goes on: it can take the lock when the lock is free,
\* and its call can return, after the 504
C29_CancelOnlyUnstarted ==
    /\ [][\A r \in Reqs : TimesOut(r) =>
            /\ wi[r] = "queued" =>
                  wi'[r] = "cancelled" /\ \A i \in 1..Len(queue') : queue'[i] # r
            /\ wi[r] \in Started =>
                  /\ wi'[r] = wi[r]
                  /\ (r \in model_lock <=> r \in model_lock')
                  /\ \A i \in 1..Len(queue') : queue'[i] # r]_vars
    /\ [][\A r \in Reqs : wi[r] = "cancelled" => wi'[r] = "cancelled"]_vars
    /\ [](\A r \in Reqs : wi[r] = "cancelled" => r \notin model_lock)
    /\ [](\A r \in Reqs :
            (pc[r] = "done" /\ wi[r] = "waitlock" /\ model_lock = {})
                => ENABLED AcquireLock(r, "path"))
    /\ [](\A r \in Reqs : (pc[r] = "done" /\ wi[r] = "engine") => ENABLED EngineOk(r))

\* after their 504, one work item sits cancelled and another, which was
\* blocked on the lock at its timeout, has taken the lock and is in the
\* engine
C29_Witness ==
    \E r, c \in Reqs :
        /\ pc[r] = "done" /\ wi[r] = "engine" /\ r \in model_lock
        /\ releases[r] = 1
        /\ pc[c] = "done" /\ wi[c] = "cancelled"

\* both threads of the pool run work items of requests that are done, and
\* the work item of an admitted request waits in the queue
AbandonedFillPool ==
    \E a, b, n \in Reqs :
        /\ a # b
        /\ pc[a] = "done" /\ wi[a] \in Started
        /\ pc[b] = "done" /\ wi[b] \in Started
        /\ pc[n] = "awaiting" /\ wi[n] = "queued"

Unfinished == {r \in Reqs : wi[r] \in {"queued"} \cup Started}

HolderStep(r) ==
    \/ LoadOk(r)
    \/ LoadFail(r)
    \/ \E f \in PrepareOutcomes, c \in CropOutcomes : PrepareImage(r, f, c)
    \/ EngineOk(r)
    \/ EngineFail(r)
    \/ EnginePipe(r)

\* C31: the gateway cannot deadlock: a work item that ends its call, by a
\* return or by an exception, has left the lock; the lock is held only by a
\* work item inside its call, which can always take its next step (it waits
\* for no other resource); a started work item stays started until it
\* completes, and when every engine call terminates, whenever work items are
\* started a state follows in which all of them have completed and the lock
\* is free
C31_NoDeadlock ==
    /\ [][\A r \in Reqs : (wi[r] \in Started /\ wi'[r] = "done") =>
            r \notin model_lock']_vars
    /\ [](\A r \in model_lock :
            /\ wi[r] \in {"loading", "prepare", "engine"}
            /\ ENABLED HolderStep(r))
    /\ [](\A r \in Reqs : wi[r] = "done" => r \notin model_lock)
    /\ [][\A r \in Reqs : wi[r] \in Started => wi'[r] \in Started \cup {"done"}]_vars
    /\ (Running # {}) ~> (Running = {} /\ model_lock = {})

\* a work item whose engine call raised has completed and the lock is free
\* again, while the work item that waited for the lock behind it has it
C31_Witness ==
    \E r1, r2 \in Reqs :
        /\ r1 # r2
        /\ wi[r1] = "done" /\ result[r1] \in {"fail", "pipe", "exc"}
        /\ wi[r2] = "engine" /\ model_lock = {r2}

\* the temporary files a call of analyze_screenshot makes itself
OwnTempFiles == {"decoded", "cropped"}

\* C32: cleanup removes only files the call itself made: the file named by
\* the caller's image_path stays on disk through the whole call, cropped or
\* not, success or failure, no step removes a file other than the decoded
\* and the cropped temporary file of the call, and only registered files
\* are unlinked
C32_OnlyOwnFilesRemoved ==
    /\ [](image_path => "caller" \in files)
    /\ [](unlinked \subseteq OwnTempFiles)
    /\ [](unlinked \subseteq FilesOf(temp_files_to_cleanup))
    /\ [](FilesOf(temp_files_to_cleanup) \subseteq OwnTempFiles)
    /\ [][call_pc # "returned" /\ call_pc # "raised" =>
            /\ files \ files' \subseteq OwnTempFiles
            /\ files \ files' = unlinked']_vars

\* a call with image_path whose image was cropped has failed in the engine:
\* the cropped file is unlinked and the caller's file is on disk
C32_Witness ==
    /\ call_pc = "returned"
    /\ image_path
    /\ was_preprocessed
    /\ ~call_result.success
    /\ unlinked = {"cropped"}
    /\ files = {"caller"}

\* the image the call had before the preprocessing block
OriginalImage == IF image_path THEN "caller" ELSE "decoded"

\* C33, as stated: the key "preprocessed" is true in the result exactly when
\* a cropped temporary file was made and handed to the engine
C33_FlagIffCropped ==
    call_result.done => (call_result.preprocessed <=> engine_image = "cropped")

\* C33, amended: the preprocessing block never ends the call; when nothing
\* was cropped the engine gets the original image, no further temporary file
\* is registered and the result has no "preprocessed" key; the key is true
\* exactly when the analysis succeeded on a cropped temporary file that was
\* made, registered and handed to the engine
C33_PreprocessIsHarmless ==
    /\ [][call_pc = "preprocess" => call_pc' \in {"preprocess", "generate"}]_vars
    /\ [](engine_image # NoFile =>
            IF was_preprocessed
            THEN /\ engine_image = "cropped"
                 /\ FilesOf(temp_files_to_cleanup) = {"cropped"} \cup
                        (IF image_path THEN {} ELSE {"decoded"})
            ELSE /\ engine_image = OriginalImage
                 /\ "cropped" \notin FilesOf(temp_files_to_cleanup)
                 /\ ~call_result.preprocessed)
    /\ [](call_result.done =>
            (call_result.preprocessed <=>
                (call_result.success /\ engine_image = "cropped")))
    /\ []((call_pc = "generate" /\ ~was_preprocessed) => image_source = OriginalImage)

\* a call whose preprocessing met a failed write of the cropped file has
\* succeeded on the original image, without the key
C33_Witness ==
    /\ call_pc = "returned"
    /\ preprocess
    /\ call_result.success
    /\ ~call_result.preprocessed
    /\ engine_image = "caller"
    /\ "cropped" \in files
    /\ temp_files_to_cleanup = <<>>

\* the step that ends the shutdown phase of lifespan()
ShutdownPhaseEnds == startup \in {"serving", "pool_shutdown"} /\ startup' \in {"stopped", "raised"}

\* C34, as stated: the shutdown phase of lifespan() ends only when no work
\* item runs or is queued any more, and neither its steps nor the time it
\* waits cancel a queued work item
C34_PoolDrained ==
    /\ [][ShutdownPhaseEnds => (Running = {} /\ queue = <<>>)]_vars
    /\ [][startup' # startup => wi' = wi]_vars
    /\ [][startup = "pool_shutdown" =>
            \A r \in Reqs : wi'[r] = "cancelled" => wi[r] = "cancelled"]_vars

\* the text the separator loop starts with: the output trimmed, without the
\* echoed prompt
BeforeSeparators ==
    LET d == Strip(output)
    IN IF StartsWith(d, prompt) THEN AfterPrompt(d) ELSE d

\* the separators that occur in a text, by their place in the list
Occurring(t) == {k \in 1..Len(Separators) : Contains(t, Separators[k])}

\* the first of them in the order of the list
FirstOccurring(t) == CHOOSE k \in Occurring(t) : \A m \in Occurring(t) : k <= m

\* C35: the description of a success is the text after the first occurrence
\* of the separator that comes first in the list among those that occur in
\* the text, trimmed, and nothing is cut after that; a text in which no
\* separator occurs is returned as it is, trimmed
C35_OneSeparatorByPriority ==
    (analysis.done /\ analysis.success) =>
        LET t == BeforeSeparators
        IN IF Occurring(t) = {} THEN analysis.description = Strip(t)
           ELSE analysis.description = Strip(AfterFirst(t, Separators[FirstOccurring(t)]))

\* the text held a blank line before its first "newline Answer:": the
\* description is what followed "newline Answer:", and the blank line that
\* the description holds itself was not cut
C35_Witness ==
    /\ analysis.done /\ analysis.success
    /\ Occurring(BeforeSeparators) = {2, 4}
    /\ \E i \in 1..Len(BeforeSeparators) :
          /\ OccursAt(BeforeSeparators, Separators[4], i)
          /\ \A j \in 1..i : ~OccursAt(BeforeSeparators, Separators[2], j)
    /\ Contains(analysis.description, Separators[4])

\* caller c is inside load_reasoning_model or generate_text
InReasoningCall(c) ==
    IF c = LifespanCaller THEN startup = "reasoning_loading"
    ELSE wi[c] \in {"loading", "engine"} /\ EngineOf(kind[c]) = "reasoning"

\* C36: sys.stdout and sys.stderr are redirected only while a reasoning load
\* or generation call goes on, to the devnull of that call; the call that
\* ends, by return or by exception, leaves the streams that were in place
\* when it began; and the streams a call saves are the streams of the
\* process, never the devnull of another call
C36_StreamsRestored ==
    /\ [](\A c \in Callers :
            (sys_stdout = Devnull(c) \/ sys_stderr = Devnull(c)) =>
                (InReasoningCall(c) /\ sys_stdout = Devnull(c) /\ sys_stderr = Devnull(c)))
    /\ []((\A c \in Callers : ~InReasoningCall(c)) =>
            (sys_stdout = ProcessStdout /\ sys_stderr = ProcessStderr))
    /\ [][\A c \in Callers : (InReasoningCall(c) /\ ~InReasoningCall(c)') =>
            /\ sys_stdout' = original_stdout[c]
            /\ sys_stderr' = original_stderr[c]]_vars
    /\ [](\A c \in Callers :
            /\ original_stdout[c] \in {NoStream, ProcessStdout}
            /\ original_stderr[c] \in {NoStream, ProcessStderr}
            /\ (original_stdout[c] # NoStream => InReasoningCall(c)))
    /\ [](Cardinality({c \in Callers : InReasoningCall(c)}) <= 1)

\* the generation call of a reasoning request has ended with a broken pipe
\* and the streams of the process are back, while the work item of another
\* reasoning request, which waited for the lock, has redirected them
C36_Witness ==
    \E r1, r2 \in Reqs :
        /\ wi[r1] = "done" /\ result[r1] = "pipe"
        /\ wi[r2] = "engine" /\ EngineOf(kind[r2]) = "reasoning"
        /\ sys_stdout = Devnull(r2)
        /\ original_stdout[r2] = ProcessStdout
        /\ original_stdout[r1] = NoStream

=============================================================================
